---- MODULE Spec2Model ----
(***************************************************************************)
(* EAV-Django: schemata, entities and the Attr table, with the operations  *)
(* of eav/models.py (BaseSchema.save, BaseSchema.save_attr,                *)
(* BaseEntity.save, BaseEntity.__getattr__, EntityManager) and of          *)
(* eav/managers.py (BaseEntityManager.filter / exclude / create).          *)
(*                                                                         *)
(* Encoding.  Python scalars are strings: None is "None", booleans are     *)
(* "True"/"False", integers are "0"/"1", texts are themselves.  A value    *)
(* handed to an entity attribute is a record [isList, v, items]: a scalar  *)
(* v, or a list whose members are `items` (the code reads a list only with *)
(* `in` and set(), so order and repetition are dropped).  A schema's       *)
(* primary key is its unique name; an entity's primary key is its index    *)
(* in `entities`.  The Attr table is a bag, so that two rows with the same *)
(* content are representable.                                              *)
(***************************************************************************)
EXTENDS Integers, Sequences, FiniteSets, Bags, TLC

VARIABLES schemata,   \* the Schema table: records [name, title, datatype, managed, m2o]
          choices,    \* the application's choice storage: records [schema, name, title]
          entities,   \* the Entity table: sequence of rows [title], pk = index
          attrs,      \* the Attr table: bag of rows
          hidden      \* what the entity class's get_schemata_for_instance leaves
                      \* out: pairs <<title of the instance, name of the schema>>

vars == <<schemata, choices, entities, attrs, hidden>>

MaxEntities == 2

None == "None"

MANAGED_MANY_TO_ONE_PREFIX == "m2o"

TYPE_MANY == "many"

(* ----------------------------------------------------------------------- *)
(* Values                                                                  *)
(* ----------------------------------------------------------------------- *)

Scalar(s) == [isList |-> FALSE, v |-> s, items |-> {}]

ListOf(S) == [isList |-> TRUE, v |-> "", items |-> S]

NoneVal == Scalar(None)

\* Python truthiness of a scalar (`if value:`)
Truthy(s) == s \notin {None, "False", "0", ""}

TextValues == {"green", "sweet"}
IntValues == {"0", "1"}
BoolValues == {"False", "True"}
Titles == {"Apple", "Pear"}
ChoiceNames == {"s", "m"}

ValuesOf(datatype) ==
    CASE datatype = "text" -> TextValues
      [] datatype = "int" -> IntValues
      [] datatype = "bool" -> BoolValues
      [] OTHER -> {}

(* ----------------------------------------------------------------------- *)
(* Schema table                                                            *)
(* ----------------------------------------------------------------------- *)

get_m2o_schema_name(name, value) ==
    MANAGED_MANY_TO_ONE_PREFIX \o "_" \o name \o "_" \o value

MkSchema(name, title, datatype, managed, m2o) ==
    [name |-> name, title |-> title, datatype |-> datatype,
     managed |-> managed, m2o |-> m2o]

SchemaNames(sch) == {s.name : s \in sch}

SchemaByName(sch, name) == CHOOSE s \in sch : s.name = name

\* Schema.Meta.ordering = ['title']: the names, in the order of their titles
\* ("Age", "Colour", "I can haz it", "Size", "Taste"; managed schemata last)
NameOrder == <<"age", "colour", "i_can_haz_it", "size", "taste",
               "m2o_size_s", "m2o_size_m">>

\* BaseSchema.get_choices(): the (choice, title) pairs of a schema, in the
\* order the application keeps them
ChoiceOrder == <<"s", "m">>

\* the titles a choice may carry
TitlesOfChoice(c) == IF c = "s" THEN {"S", "Small"} ELSE {"M"}

RECURSIVE get_choices_from(_, _, _)
get_choices_from(ch, name, i) ==
    IF i > Len(ChoiceOrder) THEN <<>>
    ELSE LET here == {c \in ch : c.schema = name /\ c.name = ChoiceOrder[i]}
         IN  (IF here = {} THEN <<>>
              ELSE LET c == CHOOSE c \in here : TRUE IN <<<<c.name, c.title>>>>)
             \o get_choices_from(ch, name, i + 1)

get_choices(ch, name) == get_choices_from(ch, name, 1)

SeqRange(q) == {q[i] : i \in 1..Len(q)}

ChoiceNamesOf(ch, name) == {p[1] : p \in SeqRange(get_choices(ch, name))}

\* ManagedFor that leaves the title of a managed schema that exists as it is
ManagedForKeepTitle(sch, self, pair) ==
    LET name == get_m2o_schema_name(self.name, pair[1])
    IN  IF name \in SchemaNames(sch)
        THEN SchemaByName(sch, name)
        ELSE MkSchema(name, pair[2], "bool", TRUE, FALSE)

\* BaseSchema.save: the row is written, then for an m2o schema every choice
\* gets its managed schema (created, or its title brought up to date)
ManagedFor(sch, self, pair) ==
    LET name == get_m2o_schema_name(self.name, pair[1])
    IN  IF name \in SchemaNames(sch)
        THEN [SchemaByName(sch, name) EXCEPT !.title = pair[2]]
        ELSE MkSchema(name, pair[2], "bool", TRUE, FALSE)

\* BaseSchema.save that drops the managed schemata of choices that are gone
BaseSchema_save_pruning(sch, ch, self) ==
    LET stored == {s \in sch : s.name # self.name} \cup {self}
    IN  IF self.m2o
        THEN LET pairs == SeqRange(get_choices(ch, self.name))
             IN  {s \in stored : ~s.managed} \cup {ManagedFor(stored, self, p) : p \in pairs}
        ELSE stored

BaseSchema_save(sch, ch, self) ==
    LET stored == {s \in sch : s.name # self.name} \cup {self}
    IN  IF self.m2o
        THEN LET pairs == SeqRange(get_choices(ch, self.name))
                 names == {get_m2o_schema_name(self.name, p[1]) : p \in pairs}
             IN  {s \in stored : s.name \notin names}
                 \cup {ManagedFor(stored, self, p) : p \in pairs}
        ELSE stored

(* ----------------------------------------------------------------------- *)
(* Attr table                                                              *)
(* ----------------------------------------------------------------------- *)

\* Attr(**lookups): a row for (entity, schema), every value column NULL
NewAttr(entity, schema) ==
    [entity |-> entity, schema |-> schema, choice |-> None,
     value_text |-> None, value_int |-> None,
     value_date |-> None, value_bool |-> None]

Column(datatype) == "value_" \o datatype

\* Attr._set_value that writes the text column whatever the datatype
Attr_set_value_text(sch, row, new_value) == [row EXCEPT !.value_text = new_value]

\* Attr._get_value / Attr._set_value
Attr_get_value(sch, row) == row[Column(SchemaByName(sch, row.schema).datatype)]

Attr_set_value(sch, row, new_value) ==
    [row EXCEPT ![Column(SchemaByName(sch, row.schema).datatype)] = new_value]

Rows(at) == BagToSet(at)

\* Attr.objects.get(entity=..., schema=...): the rows it matches, and how many
Matching(at, entity, schema) ==
    {r \in Rows(at) : r.entity = entity /\ r.schema = schema}

RECURSIVE CopiesOfAll(_, _)
CopiesOfAll(at, rows) ==
    IF rows = {} THEN 0
    ELSE LET r == CHOOSE r \in rows : TRUE
         IN  CopiesIn(r, at) + CopiesOfAll(at, rows \ {r})

\* attr.save() of a row that is not stored yet.  unique_together (entity,
\* schema) is declared on Attr.Meta; save_attr inserts only after get() found
\* no row, so the constraint never rejects an insert made here.
AttrInsert(at, row) == at (+) SetToBag({row})

\* attr.save() of a stored row
AttrUpdate(at, old, new) == (at (-) SetToBag({old})) (+) SetToBag({new})

Outcome(at, exc) == [attrs |-> at, exc |-> exc]

(* ----------------------------------------------------------------------- *)
(* BaseSchema.save_attr                                                    *)
(* ----------------------------------------------------------------------- *)

PyBool(b) == IF b THEN "True" ELSE "False"

\* the loop of the list branch, from the i-th choice on: each choice's managed
\* schema is fetched (DoesNotExist ends the call, what was saved stays saved),
\* its Attr is fetched or made, set to True or False, and saved
RECURSIVE SaveM2oChoices(_, _, _, _, _, _, _)
SaveM2oChoices(sch, at, pairs, i, entity, name, enabled_choices) ==
    IF i > Len(pairs) THEN Outcome(at, "")
    ELSE LET schema_name == get_m2o_schema_name(name, pairs[i][1])
             found == Matching(at, entity, schema_name)
             n == CopiesOfAll(at, found)
             value == PyBool(schema_name \in enabled_choices)
         IN  IF schema_name \notin SchemaNames(sch)
             THEN Outcome(at, "DoesNotExist")
             ELSE IF n > 1
             THEN Outcome(at, "MultipleObjectsReturned")
             ELSE IF n = 1
             THEN LET attr == CHOOSE r \in found : TRUE
                  IN  SaveM2oChoices(sch,
                          AttrUpdate(at, attr, Attr_set_value(sch, attr, value)),
                          pairs, i + 1, entity, name, enabled_choices)
             ELSE SaveM2oChoices(sch,
                      AttrInsert(at, Attr_set_value(sch,
                                         NewAttr(entity, schema_name), value)),
                      pairs, i + 1, entity, name, enabled_choices)

\* SaveM2oList that walks the enabled choices only
SaveM2oListEnabledOnly(sch, ch, at, self, entity, name, value) ==
    LET pairs == get_choices(ch, self.name)
        valid_choices == {get_m2o_schema_name(name, p[1]) : p \in SeqRange(pairs)}
        enabled_choices == {get_m2o_schema_name(name, v) : v \in value.items}
    IN  IF ~(enabled_choices \subseteq valid_choices)
        THEN Outcome(at, "ValueError")
        ELSE SaveM2oChoices(sch, at, SelectSeq(pairs, LAMBDA p : p[1] \in value.items),
                            1, entity, name, enabled_choices)

\* SaveM2oList with the check of the list items left out
SaveM2oListUnchecked(sch, ch, at, self, entity, name, value) ==
    LET pairs == get_choices(ch, self.name)
        enabled_choices == {get_m2o_schema_name(name, v) : v \in value.items}
    IN  SaveM2oChoices(sch, at, pairs, 1, entity, name, enabled_choices)

\* value is a list
SaveM2oList(sch, ch, at, self, entity, name, value) ==
    LET pairs == get_choices(ch, self.name)
        valid_choices == {get_m2o_schema_name(name, p[1]) : p \in SeqRange(pairs)}
        enabled_choices == {get_m2o_schema_name(name, v) : v \in value.items}
    IN  IF ~(enabled_choices \subseteq valid_choices)
        THEN Outcome(at, "ValueError")
        ELSE SaveM2oChoices(sch, at, pairs, 1, entity, name, enabled_choices)

\* SaveM2oNone that resets the first choice's Attr rows only
SaveM2oNoneFirstOnly(sch, ch, at, self, entity, name) ==
    LET pairs == get_choices(ch, self.name)
        valid_choices == IF pairs = <<>> THEN {}
                         ELSE {get_m2o_schema_name(name, pairs[1][1])}
    IN  Outcome(BagOfAll(LAMBDA r : IF r.schema \in valid_choices
                                    THEN [r EXCEPT !.value_bool = "False"]
                                    ELSE r, at), "")

\* value is None:
\* Attr.objects.filter(schema__name__in=valid_choices).update(value_bool=False)
SaveM2oNone(sch, ch, at, self, entity, name) ==
    LET valid_choices ==
            {get_m2o_schema_name(name, p[1]) : p \in SeqRange(get_choices(ch, self.name))}
    IN  Outcome(BagOfAll(LAMBDA r : IF r.schema \in valid_choices
                                    THEN [r EXCEPT !.value_bool = "False"]
                                    ELSE r, at), "")

\* value is neither a list nor None
SaveM2oOther(sch, ch, at, self, entity, name, value) == Outcome(at, "ValueError")

\* SaveSimple with the lookup of the stored Attr left out: a row is made
\* on every call
SaveSimpleAlwaysNew(sch, at, self, entity, value) ==
    IF Truthy(value.v)
    THEN Outcome(AttrInsert(at, Attr_set_value(sch, NewAttr(entity, self.name), value.v)), "")
    ELSE Outcome(at, "")

\* schema is not many-to-one: the Attr of (entity, schema) is fetched; when
\* there is none, one is made `if value:`; when there is one, it is written
\* when the value differs
SaveSimple(sch, at, self, entity, value) ==
    LET found == Matching(at, entity, self.name)
        n == CopiesOfAll(at, found)
    IN  IF n > 1 THEN Outcome(at, "MultipleObjectsReturned")
        ELSE IF n = 0
        THEN IF Truthy(value.v)
             THEN Outcome(AttrInsert(at, Attr_set_value(sch,
                                NewAttr(entity, self.name), value.v)), "")
             ELSE Outcome(at, "")
        ELSE LET attr == CHOOSE r \in found : TRUE
             IN  IF value.v # Attr_get_value(sch, attr)
                 THEN Outcome(AttrUpdate(at, attr,
                                  Attr_set_value(sch, attr, value.v)), "")
                 ELSE Outcome(at, "")

save_attr(sch, ch, at, self, entity, name, value) ==
    IF self.m2o
    THEN IF value.isList
         THEN SaveM2oList(sch, ch, at, self, entity, name, value)
         ELSE IF value.v = None
         THEN SaveM2oNone(sch, ch, at, self, entity, name)
         ELSE SaveM2oOther(sch, ch, at, self, entity, name, value)
    ELSE SaveSimple(sch, at, self, entity, value)

(* ----------------------------------------------------------------------- *)
(* BaseEntity                                                              *)
(* ----------------------------------------------------------------------- *)

\* Entity._meta.get_all_field_names() of the concrete entity model
FieldNames == {"id", "title", "price", "attrs"}

\* names that start with an underscore
PrivateNames == {"_state"}

\* an entity instance in memory: its pk (0 before the first save), its title
\* field and the attribute values assigned to it (its __dict__)
Instance(pk, title, vals) == [pk |-> pk, title |-> title, vals |-> vals]

\* a fresh instance of a stored entity: Entity.objects.get(pk=pk)
Loaded(ents, pk) == Instance(pk, ents[pk].title, <<>>)

get_schemata_for_model(sch) == sch

\* BaseEntity.get_schemata_for_instance returns qs; an entity class may
\* override it to leave schemata out by the fields of the instance
get_schemata_for_instance(self, qs) == {s \in qs : <<self.title, s.name>> \notin hidden}

_schemata(sch, self) == get_schemata_for_instance(self, get_schemata_for_model(sch))

RECURSIVE NamesInOrder(_, _)
NamesInOrder(names, i) ==
    IF i > Len(NameOrder) THEN <<>>
    ELSE (IF NameOrder[i] \in names THEN <<NameOrder[i]>> ELSE <<>>)
         \o NamesInOrder(names, i + 1)

schema_names(sch, self) == NamesInOrder(SchemaNames(_schemata(sch, self)), 1)

\* _eav_attrs that takes the Attr rows of every entity
_eav_attrs_of_all(sch, at, self) ==
    {r \in Rows(at) : r.schema \in SchemaNames(_schemata(sch, self))}

\* _eav_attrs: the entity's Attr rows whose schema is one of its schemata
_eav_attrs(sch, at, self) ==
    {r \in Rows(at) : r.entity = self.pk /\ r.schema \in SchemaNames(_schemata(sch, self))}

Got(value, exc) == [value |-> value, exc |-> exc]

\* BaseEntity.__getattr__: called when the instance holds no such attribute
BaseEntity_getattr(sch, at, self, name) ==
    IF name \notin PrivateNames /\ name \in SchemaNames(_schemata(sch, self))
    THEN LET mine == {r \in _eav_attrs(sch, at, self) : r.schema = name}
         IN  IF mine = {} THEN Got(None, "")
             ELSE Got(Attr_get_value(sch, CHOOSE r \in mine : TRUE), "")
    ELSE Got(None, "AttributeError")

\* getattr(self, name, None)
GetattrOrNone(sch, at, self, name) ==
    IF name \in DOMAIN self.vals THEN self.vals[name]
    ELSE LET g == BaseEntity_getattr(sch, at, self, name)
         IN  IF g.exc = "" THEN Scalar(g.value) ELSE NoneVal

\* the loop of BaseEntity.save over schema_names, from the i-th name on
RECURSIVE SaveAttrs(_, _, _, _, _, _)
SaveAttrs(sch, ch, at, self, names, i) ==
    IF i > Len(names) THEN Outcome(at, "")
    ELSE LET name == names[i]
             value == GetattrOrNone(sch, at, self, name)
             schema == SchemaByName(_schemata(sch, self), name)
         IN  IF schema.managed
             THEN SaveAttrs(sch, ch, at, self, names, i + 1)
             ELSE LET o == save_attr(sch, ch, at, schema, self.pk, name, value)
                  IN  IF o.exc # "" THEN o
                      ELSE SaveAttrs(sch, ch, o.attrs, self, names, i + 1)

Saved(ents, at, pk, exc) == [entities |-> ents, attrs |-> at, pk |-> pk, exc |-> exc]

\* Model.save of the entity row: INSERT with the next pk, or UPDATE
EntityRowSave(ents, self) ==
    IF self.pk = 0 THEN Append(ents, [title |-> self.title])
    ELSE [ents EXCEPT ![self.pk] = [title |-> self.title]]

BaseEntity_save(sch, ch, ents, at, self) ==
    LET ents2 == EntityRowSave(ents, self)
        me == IF self.pk = 0 THEN [self EXCEPT !.pk = Len(ents2)] ELSE self
        o == SaveAttrs(sch, ch, at, me, schema_names(sch, me), 1)
    IN  Saved(ents2, o.attrs, me.pk, o.exc)

\* create with the check of the keyword names left out
Manager_create_unchecked(sch, ch, ents, at, kwargs) ==
    LET title == IF "title" \in DOMAIN kwargs THEN kwargs["title"].v ELSE ""
        vals == [k \in (DOMAIN kwargs) \ FieldNames |-> kwargs[k]]
    IN  BaseEntity_save(sch, ch, ents, at, Instance(0, title, vals))

\* EntityManager.create / BaseEntityManager.create (the same code)
Manager_create(sch, ch, ents, at, kwargs) ==
    LET possible_names == FieldNames \cup SchemaNames(get_schemata_for_model(sch))
        wrong_names == (DOMAIN kwargs) \ possible_names
        title == IF "title" \in DOMAIN kwargs THEN kwargs["title"].v ELSE ""
        vals == [k \in (DOMAIN kwargs) \ FieldNames |-> kwargs[k]]
    IN  IF wrong_names # {} THEN Saved(ents, at, 0, "NameError")
        ELSE BaseEntity_save(sch, ch, ents, at, Instance(0, title, vals))

(* ----------------------------------------------------------------------- *)
(* Queries.  A keyword is the sequence of its parts between "__"           *)
(* ("size__in" is <<"size", "in">>), and so is a lookup handed to the      *)
(* query set ("attrs__value_text__in" is <<"attrs", "value_text", "in">>). *)
(* A query set is the set of the pks it yields.                            *)
(* ----------------------------------------------------------------------- *)

Cond(path, value) == [path |-> path, value |-> value]

Lookups(conds, exc) == [conds |-> conds, exc |-> exc]

AttrColumns == {"schema", "choice", "value_text", "value_int", "value_date", "value_bool"}

\* one condition on one Attr row: exact match, or __in
RowSat(r, c) ==
    LET col == c.path[2]
    IN  IF Len(c.path) >= 3 /\ c.path[3] = "in"
        THEN r[col] \in c.value.items
        ELSE r[col] = c.value.v

\* one condition on the entity row
EntitySat(ents, pk, c) ==
    LET v == IF c.path[1] = "title" THEN ents[pk].title ELSE None
    IN  IF Len(c.path) >= 2 /\ c.path[2] = "in"
        THEN v \in c.value.items
        ELSE v = c.value.v

OnAttrs(c) == c.path[1] = "attrs"

\* QuerySet.filter(**lookups): the conditions of one call that span the attrs
\* relation are met by one and the same Attr row
QuerySet_filter(ents, at, qs, conds) ==
    {pk \in qs :
        /\ \A c \in conds : ~OnAttrs(c) => EntitySat(ents, pk, c)
        /\ \/ \A c \in conds : ~OnAttrs(c)
           \/ \E r \in Rows(at) :
                  /\ r.entity = pk
                  /\ \A c \in conds : OnAttrs(c) => RowSat(r, c)}

\* QuerySet.exclude(**lookups): NOT (c1 AND c2 AND ...), where each condition
\* that spans the attrs relation is met by some Attr row of its own
QuerySet_exclude(ents, at, qs, conds) ==
    {pk \in qs :
        ~ \A c \in conds :
              IF OnAttrs(c)
              THEN \E r \in Rows(at) : r.entity = pk /\ RowSat(r, c)
              ELSE EntitySat(ents, pk, c)}

\* _filter_by_simple_schema with the schema condition left out
_filter_by_simple_schema_value_only(lookup, sublookup, value, schema) ==
    LET value_lookup == <<"attrs", Column(schema.datatype)>> \o sublookup
    IN  Lookups({Cond(value_lookup, value)}, "")

\* BaseEntityManager._filter_by_simple_schema
_filter_by_simple_schema(lookup, sublookup, value, schema) ==
    LET value_lookup == <<"attrs", Column(schema.datatype)>> \o sublookup
    IN  Lookups({Cond(<<"attrs", "schema">>, Scalar(schema.name)),
                 Cond(value_lookup, value)}, "")

\* _filter_by_m2m_schema with the sublookup left out
_filter_by_m2m_schema_no_sublookup(sch, lookup, sublookup, value, schema) ==
    Lookups({Cond(<<"attrs", "schema">>,
                  Scalar(SchemaByName(get_schemata_for_model(sch), lookup).name)),
             Cond(<<"attrs", "choice">>, value)}, "")

\* BaseEntityManager._filter_by_m2m_schema
_filter_by_m2m_schema(sch, lookup, sublookup, value, schema) ==
    IF lookup \notin SchemaNames(get_schemata_for_model(sch))
    THEN Lookups({}, "ValueError")
    ELSE Lookups({Cond(<<"attrs", "schema">>,
                       Scalar(SchemaByName(get_schemata_for_model(sch), lookup).name)),
                  Cond(<<"attrs", "choice">> \o sublookup, value)}, "")

\* BaseEntityManager._filter_by_lookup: lookup.split('__', 1)
_filter_by_lookup(sch, lookup, value) ==
    LET name == Head(lookup)
        sublookup == Tail(lookup)
        all == get_schemata_for_model(sch)
    IN  IF name \in FieldNames
        THEN Lookups({Cond(lookup, value)}, "")
        ELSE IF name \in SchemaNames(all)
        THEN LET schema == SchemaByName(all, name)
             IN  IF schema.datatype = TYPE_MANY
                 THEN _filter_by_m2m_schema(sch, name, sublookup, value, schema)
                 ELSE _filter_by_simple_schema(lookup, sublookup, value, schema)
        ELSE Lookups({}, "NameError")

AllPks(ents) == 1..Len(ents)

Found(out, exc) == [out |-> out, exc |-> exc]

\* BaseEntityManager.filter: one QuerySet.filter call for each keyword
RECURSIVE FilterEach(_, _, _, _, _, _)
FilterEach(sch, ents, at, qs, kw, left) ==
    IF left = {} THEN Found(qs, "")
    ELSE LET lookup == CHOOSE k \in left : TRUE
             lookups == _filter_by_lookup(sch, lookup, kw[lookup])
         IN  IF lookups.exc # "" THEN Found({}, lookups.exc)
             ELSE FilterEach(sch, ents, at,
                             QuerySet_filter(ents, at, qs, lookups.conds),
                             kw, left \ {lookup})

BaseEntityManager_filter(sch, ents, at, kw) ==
    FilterEach(sch, ents, at, AllPks(ents), kw, DOMAIN kw)

\* BaseEntityManager.exclude: one QuerySet.exclude call for each keyword
RECURSIVE ExcludeEach(_, _, _, _, _, _)
ExcludeEach(sch, ents, at, qs, kw, left) ==
    IF left = {} THEN Found(qs, "")
    ELSE LET lookup == CHOOSE k \in left : TRUE
             lookups == _filter_by_lookup(sch, lookup, kw[lookup])
         IN  IF lookups.exc # "" THEN Found({}, lookups.exc)
             ELSE ExcludeEach(sch, ents, at,
                              QuerySet_exclude(ents, at, qs, lookups.conds),
                              kw, left \ {lookup})

BaseEntityManager_exclude(sch, ents, at, kw) ==
    ExcludeEach(sch, ents, at, AllPks(ents), kw, DOMAIN kw)

(* ----------------------------------------------------------------------- *)
(* EntityManager of eav/models.py                                          *)
(* ----------------------------------------------------------------------- *)

_filter_by_schema_straight(lookup, sublookup, value, schema) ==
    LET value_lookup == <<"attrs", Column(schema.datatype)>> \o sublookup
    IN  Lookups({Cond(<<"attrs", "schema">>, Scalar(schema.name)),
                 Cond(value_lookup, value)}, "")

_filter_by_schema_m2o(sch, lookup, value, schema) ==
    LET managed_name == get_m2o_schema_name(schema.name, value.v)
    IN  IF managed_name \notin SchemaNames(get_schemata_for_model(sch))
        THEN Lookups({}, "ValueError")
        ELSE Lookups({Cond(<<"attrs", "schema">>, Scalar(managed_name)),
                      Cond(<<"attrs", "value_bool">>, Scalar("True"))}, "")

\* EntityManager._filter_by_lookup: name, sublookup = lookup.split('__')
EntityManager_filter_by_lookup(sch, lookup, value) ==
    LET name == Head(lookup)
        sublookup == Tail(lookup)
        all == get_schemata_for_model(sch)
    IN  IF Len(lookup) > 2 THEN Lookups({}, "ValueError")
        ELSE IF name \in FieldNames
        THEN Lookups({Cond(lookup, value)}, "")
        ELSE IF name \in SchemaNames(all)
        THEN LET schema == SchemaByName(all, name)
             IN  IF schema.m2o
                 THEN IF sublookup # <<>>
                      THEN Lookups({}, "NameError")
                      ELSE _filter_by_schema_m2o(sch, lookup, value, schema)
                 ELSE _filter_by_schema_straight(lookup, sublookup, value, schema)
        ELSE Lookups({}, "NameError")

RECURSIVE EntityManagerFilterEach(_, _, _, _, _, _)
EntityManagerFilterEach(sch, ents, at, qs, kw, left) ==
    IF left = {} THEN Found(qs, "")
    ELSE LET lookup == CHOOSE k \in left : TRUE
             lookups == EntityManager_filter_by_lookup(sch, lookup, kw[lookup])
         IN  IF lookups.exc # "" THEN Found({}, lookups.exc)
             ELSE EntityManagerFilterEach(sch, ents, at,
                             QuerySet_filter(ents, at, qs, lookups.conds),
                             kw, left \ {lookup})

EntityManager_filter(sch, ents, at, kw) ==
    EntityManagerFilterEach(sch, ents, at, AllPks(ents), kw, DOMAIN kw)

(* ----------------------------------------------------------------------- *)
(* Many-valued schemata (datatype "many"): each enabled choice of an       *)
(* entity is an Attr row of the schema that points to the choice; saving   *)
(* a many-valued attribute replaces the entity's rows for the schema.      *)
(* ----------------------------------------------------------------------- *)

ChoiceAttr(entity, schema, choice) == [NewAttr(entity, schema) EXCEPT !.choice = choice]

save_m2m_attr(at, self, entity, value) ==
    LET items == IF value.isList THEN value.items
                 ELSE IF value.v = None THEN {} ELSE {value.v}
        kept == [r \in {x \in Rows(at) : ~(x.entity = entity /\ x.schema = self.name)}
                    |-> CopiesIn(r, at)]
    IN  kept (+) SetToBag({ChoiceAttr(entity, self.name, c) : c \in items})

\* the choices an entity has enabled for a many-valued schema
EnabledChoices(at, entity, name) ==
    {r.choice : r \in {x \in Rows(at) : x.entity = entity /\ x.schema = name}}

(* ----------------------------------------------------------------------- *)
(* Facets (eav/facets.py).  The submitted data maps names of facets to     *)
(* texts, or to lists of choices for a many-valued facet; a name that is   *)
(* not submitted is not in the domain.                                     *)
(* ----------------------------------------------------------------------- *)

\* the schemata flagged `filtered` (the doctest flags them by name)
FilteredNames == {"colour", "taste", "size", "age", "i_can_haz_it"}

filterable_schemata(sch) == {s \in get_schemata_for_model(sch) : s.name \in FilteredNames}

\* BaseFacetSet.filterable_fields is empty unless a subclass sets it
filterable_fields == {}

filterable_names(sch) == filterable_fields \cup SchemaNames(filterable_schemata(sch))

\* facet classes set by the FacetSet subclass: the defaults have none for int
custom_facets == [n \in {"age"} |-> "IntegerFacet"]

FACET_FOR_DATATYPE_DEFAULTS ==
    [d \in {"text", "float", "range", "date", "bool", "many"} |->
        CASE d = "text" -> "TextFacet"
          [] d = "float" -> "RangeFacet"
          [] d = "range" -> "MultiRangeFacet"
          [] d = "date" -> "DateFacet"
          [] d = "bool" -> "BooleanFacet"
          [] d = "many" -> "ManyToManyFacet"]

\* _get_facets: the class of the facet of a schema, KeyError when the
\* defaults have none for its datatype
FacetClass(schema) ==
    IF schema.name \in DOMAIN custom_facets THEN custom_facets[schema.name]
    ELSE IF schema.datatype \in DOMAIN FACET_FOR_DATATYPE_DEFAULTS
    THEN FACET_FOR_DATATYPE_DEFAULTS[schema.datatype]
    ELSE "KeyError"

\* TextFacet._get_choices: the distinct values stored for the schema
TextFacet_get_choices(at, schema) ==
    {r[Column(schema.datatype)] : r \in {x \in Rows(at) : x.schema = schema.name}}

\* form[name].data: what was submitted under the name, None when nothing was
FieldData(data, name) == IF name \in DOMAIN data THEN data[name] ELSE NoneVal

\* field.clean(data) of the form field of a facet (required=False)
Field_clean(ch, at, schema, d) ==
    CASE FacetClass(schema) = "TextFacet" ->
             \* ChoiceField: '' for nothing, else one of the choices
             IF d.v \in {None, ""} THEN Got(Scalar(""), "")
             ELSE IF d.v \in TextFacet_get_choices(at, schema) \ {None} THEN Got(d, "")
             ELSE Got(NoneVal, "ValidationError")
      [] FacetClass(schema) = "IntegerFacet" ->
             \* IntegerField: None for nothing, else int(value)
             IF d.v \in {None, ""} THEN Got(NoneVal, "")
             ELSE IF d.v \in IntValues THEN Got(d, "")
             ELSE Got(NoneVal, "ValidationError")
      [] FacetClass(schema) = "BooleanFacet" ->
             \* NullBooleanField: True, False, or None
             IF d.v \in BoolValues THEN Got(d, "") ELSE Got(NoneVal, "")
      [] FacetClass(schema) = "ManyToManyFacet" ->
             \* ModelMultipleChoiceField: [] for nothing, else choices of the schema
             IF ~d.isList \/ d.items = {} THEN Got(ListOf({}), "")
             ELSE IF d.items \subseteq ChoiceNamesOf(ch, schema.name) THEN Got(d, "")
             ELSE Got(NoneVal, "ValidationError")
      [] OTHER -> Got(NoneVal, "KeyError")

\* Facet.get_lookups: {lookup_name: value} if value else {}; the value is a
\* cleaned text (false when empty), a cleaned integer (false when None or 0)
\* or a list (false when empty)
Facet_get_lookups(name, value) ==
    IF (value.isList /\ value.items # {}) \/ (~value.isList /\ Truthy(value.v))
    THEN {<<name>>} ELSE {}

\* ManyToManyFacet.get_lookups: {lookup_name__in: value} if value else {}
ManyToManyFacet_get_lookups(name, value) ==
    IF value.isList /\ value.items # {} THEN {<<name, "in">>} ELSE {}

\* BooleanFacet.get_lookups: {lookup_name: value} if value is not None else {}
BooleanFacet_get_lookups(name, value) ==
    IF value.v # None THEN {<<name>>} ELSE {}

\* the keys of facet.get_lookups(value), by the class of the facet
get_lookups_of(schema, value) ==
    CASE FacetClass(schema) = "ManyToManyFacet" -> ManyToManyFacet_get_lookups(schema.name, value)
      [] FacetClass(schema) = "BooleanFacet" -> BooleanFacet_get_lookups(schema.name, value)
      [] OTHER -> Facet_get_lookups(schema.name, value)

\* BaseFacetSet.get_lookups: the lookups of all facets in one dictionary
BaseFacetSet_get_lookups(sch, ch, at, data) ==
    LET facets == filterable_schemata(sch)
        value(s) == Field_clean(ch, at, s, FieldData(data, s.name))
        keys == UNION {get_lookups_of(s, value(s).value) : s \in facets}
    IN  IF \E s \in facets : value(s).exc = "KeyError" THEN [kw |-> <<>>, exc |-> "KeyError"]
        ELSE IF \E s \in facets : value(s).exc # "" THEN [kw |-> <<>>, exc |-> "ValidationError"]
        ELSE [kw |-> [k \in keys |-> value(SchemaByName(sch, k[1])).value], exc |-> ""]

\* BaseFacetSet.object_list with get_queryset = Entity.objects.filter
object_list(sch, ch, ents, at, data) ==
    LET lookups == BaseFacetSet_get_lookups(sch, ch, at, data)
    IN  IF lookups.exc = "ValidationError" THEN Found({}, "")
        ELSE IF lookups.exc # "" THEN Found({}, lookups.exc)
        ELSE BaseEntityManager_filter(sch, ents, at, lookups.kw)

(* ----------------------------------------------------------------------- *)
(* The state machine.  The state is the database; every call is one        *)
(* action, and a query is an action that leaves the database as it is.     *)
(* ----------------------------------------------------------------------- *)

\* the schema tables the runs start from
TextSchemata == {MkSchema("colour", "Colour", "text", FALSE, FALSE),
                 MkSchema("taste", "Taste", "text", FALSE, FALSE)}

TypedSchemata == {MkSchema("i_can_haz_it", "I can haz it", "bool", FALSE, FALSE),
                  MkSchema("age", "Age", "int", FALSE, FALSE)}

M2oSchemata == {MkSchema("size", "Size", "text", FALSE, TRUE)}

ManySchemata == {MkSchema("colour", "Colour", "text", FALSE, FALSE),
                 MkSchema("size", "Size", TYPE_MANY, FALSE, FALSE)}

ManyChoices == {[schema |-> "size", name |-> "s", title |-> "S"],
                [schema |-> "size", name |-> "m", title |-> "M"]}

\* the values a caller hands to an attribute of a schema
SimpleVals(datatype) == {Scalar(v) : v \in ValuesOf(datatype) \cup {None}}

M2oVals == {ListOf(S) : S \in SUBSET ChoiceNames} \cup {ListOf({"xl"}), NoneVal, Scalar("s")}

ManyVals == {ListOf(S) : S \in SUBSET ChoiceNames} \cup {NoneVal, Scalar("s")}

InputVals(schema) ==
    IF schema.m2o THEN M2oVals
    ELSE IF schema.datatype = TYPE_MANY THEN ManyVals
    ELSE SimpleVals(schema.datatype)

Unmanaged(sch) == {s \in sch : ~s.managed}

Extended(kw, key, value) ==
    [k \in (DOMAIN kw) \cup {key} |-> IF k = key THEN value ELSE kw[k]]

\* keyword arguments over the unmanaged schemata: each name left out, or
\* given one of its values
RECURSIVE KwargsOver(_, _)
KwargsOver(sch, names) ==
    IF names = {} THEN {<<>>}
    ELSE LET name == CHOOSE n \in names : TRUE
             rest == KwargsOver(sch, names \ {name})
         IN  rest \cup {Extended(kw, name, v) :
                            kw \in rest, v \in InputVals(SchemaByName(sch, name))}

SchemaKwargs(sch) == KwargsOver(sch, SchemaNames(Unmanaged(sch)))

WithTitle(kw, title) ==
    [k \in (DOMAIN kw) \cup {"title"} |-> IF k = "title" THEN Scalar(title) ELSE kw[k]]

\* the keywords of a query: a title, and exact values or __in lists of attributes
QueryVals(schema) ==
    IF schema.datatype = TYPE_MANY \/ schema.m2o THEN {Scalar(c) : c \in ChoiceNames}
    ELSE {Scalar(v) : v \in ValuesOf(schema.datatype)}

QueryKeysOf(sch, name) ==
    IF name = "title" THEN {<<"title">>} ELSE {<<name>>, <<name, "in">>}

QueryValsOf(sch, key) ==
    IF key = <<"title">> THEN {Scalar(t) : t \in Titles}
    ELSE LET schema == SchemaByName(sch, key[1])
         IN  IF Len(key) = 1 THEN QueryVals(schema)
             ELSE {ListOf({q.v : q \in Q}) : Q \in SUBSET QueryVals(schema)}

RECURSIVE QueryKwargsOver(_, _)
QueryKwargsOver(sch, names) ==
    IF names = {} THEN {<<>>}
    ELSE LET name == CHOOSE n \in names : TRUE
             rest == QueryKwargsOver(sch, names \ {name})
         IN  rest \cup UNION {{Extended(kw, key, v) :
                                   kw \in rest, v \in QueryValsOf(sch, key)}
                              : key \in QueryKeysOf(sch, name)}

QueryKwargs(sch) == QueryKwargsOver(sch, {"title"} \cup SchemaNames(Unmanaged(sch)))

InitWith(sch, ch) ==
    /\ schemata = sch
    /\ choices = ch
    /\ entities = <<>>
    /\ attrs = EmptyBag
    /\ hidden = {}

\* the application adds, retitles or removes a choice of an m2o schema
ChoiceChange ==
    \E self \in {s \in schemata : s.m2o}, c \in ChoiceNames : \E t \in TitlesOfChoice(c) \cup {""} :
        /\ choices' = {x \in choices : ~(x.schema = self.name /\ x.name = c)}
                      \cup (IF t = "" THEN {}
                            ELSE {[schema |-> self.name, name |-> c, title |-> t]})
        /\ choices' # choices
        /\ UNCHANGED <<schemata, entities, attrs, hidden>>

\* schema.save()
SchemaSave ==
    \E self \in Unmanaged(schemata) :
        /\ schemata' = BaseSchema_save(schemata, choices, self)
        /\ UNCHANGED <<choices, entities, attrs, hidden>>

\* schema.save_attr(entity, name, value)
SaveAttr ==
    \E self \in Unmanaged(schemata), pk \in AllPks(entities) : \E value \in InputVals(self) :
        /\ attrs' = save_attr(schemata, choices, attrs, self, pk, self.name, value).attrs
        /\ UNCHANGED <<schemata, choices, entities, hidden>>

\* e = Entity(title=...) or e = Entity.objects.get(pk=pk); e.a = v; ...; e.save()
EntitySaveOf(titles) ==
    \E pk \in 0..Len(entities), title \in titles, vals \in SchemaKwargs(schemata) :
        /\ pk = 0 => Len(entities) < MaxEntities
        /\ pk # 0 => title = entities[pk].title
        /\ LET o == BaseEntity_save(schemata, choices, entities, attrs,
                                    Instance(pk, title, vals))
           IN  /\ entities' = o.entities
               /\ attrs' = o.attrs
        /\ UNCHANGED <<schemata, choices, hidden>>

\* Entity.objects.create(**kwargs)
CreateOf(titles) ==
    \E title \in titles, vals \in SchemaKwargs(schemata) :
        /\ Len(entities) < MaxEntities
        /\ LET o == Manager_create(schemata, choices, entities, attrs,
                                   WithTitle(vals, title))
           IN  /\ entities' = o.entities
               /\ attrs' = o.attrs
        /\ UNCHANGED <<schemata, choices, hidden>>

EntitySave == EntitySaveOf(Titles)

Create == CreateOf(Titles)

EntitySaveApple == EntitySaveOf({"Apple"})

CreateApple == CreateOf({"Apple"})

\* Entity.objects.filter(**kw) and Entity.objects.exclude(**kw) read only
Filter ==
    \E kw \in QueryKwargs(schemata) :
        /\ BaseEntityManager_filter(schemata, entities, attrs, kw).out \subseteq AllPks(entities)
        /\ UNCHANGED vars

Exclude ==
    \E kw \in QueryKwargs(schemata) :
        /\ BaseEntityManager_exclude(schemata, entities, attrs, kw).out \subseteq AllPks(entities)
        /\ UNCHANGED vars

\* Entity.objects.filter(**kw) of the EntityManager of eav/models.py
EntityManagerFilter ==
    \E kw \in QueryKwargs(schemata) :
        /\ EntityManager_filter(schemata, entities, attrs, kw).out \subseteq AllPks(entities)
        /\ UNCHANGED vars

\* an entity is stored with a text attribute and a many-valued attribute
ManySave ==
    \E pk \in 0..Len(entities), colour \in SimpleVals("text"), size \in ManyVals :
        /\ pk = 0 => Len(entities) < MaxEntities
        /\ LET self == Instance(pk, "Apple", <<>>)
               ents2 == EntityRowSave(entities, self)
               me == IF pk = 0 THEN Len(ents2) ELSE pk
               o == SaveSimple(schemata, attrs, SchemaByName(schemata, "colour"), me, colour)
           IN  /\ entities' = ents2
               /\ attrs' = save_m2m_attr(o.attrs, SchemaByName(schemata, "size"), me, size)
        /\ UNCHANGED <<schemata, choices, hidden>>

\* text attributes, titles and queries
Init == InitWith(TextSchemata, {})

Next == SchemaSave \/ SaveAttr \/ EntitySave \/ Create \/ Filter \/ Exclude

Spec == Init /\ [][Next]_vars

\* boolean and integer attributes
InitTyped == InitWith(TypedSchemata, {})

NextTyped == SchemaSave \/ SaveAttr \/ EntitySaveApple \/ CreateApple

SpecTyped == InitTyped /\ [][NextTyped]_vars

\* a many-to-one schema, its choices and its managed schemata
InitM2o == InitWith(M2oSchemata, {})

NextM2o == ChoiceChange \/ SchemaSave \/ SaveAttr \/ EntitySaveApple \/ CreateApple
           \/ EntityManagerFilter

SpecM2o == InitM2o /\ [][NextM2o]_vars

\* every kind of schema table of eav/models.py
InitAll == \E sch \in {TextSchemata, TypedSchemata, M2oSchemata} : InitWith(sch, {})

NextAll == ChoiceChange \/ SchemaSave \/ SaveAttr \/ EntitySaveApple \/ CreateApple

SpecAll == InitAll /\ [][NextAll]_vars

\* an entity class whose get_schemata_for_instance leaves the schema taste
\* out for the instances titled Pear
InitInstance ==
    /\ schemata = TextSchemata
    /\ choices = {}
    /\ entities = <<>>
    /\ attrs = EmptyBag
    /\ hidden = {<<"Pear", "taste">>}

NextInstance == SaveAttr \/ EntitySave \/ Create

SpecInstance == InitInstance /\ [][NextInstance]_vars

\* what may be submitted under the name of a facet
FacetInputs(schema) ==
    CASE FacetClass(schema) = "TextFacet" -> {Scalar(v) : v \in TextValues \cup {"", "red"}}
      [] FacetClass(schema) = "IntegerFacet" -> {Scalar(v) : v \in IntValues \cup {"", "x"}}
      [] FacetClass(schema) = "BooleanFacet" -> {Scalar(v) : v \in BoolValues}
      [] FacetClass(schema) = "ManyToManyFacet" ->
             {ListOf(S) : S \in SUBSET (ChoiceNames \cup {"xl"})}
      [] OTHER -> {}

\* the submitted data: each facet left out, or given one of its inputs
RECURSIVE FacetDataOver(_, _)
FacetDataOver(sch, names) ==
    IF names = {} THEN {<<>>}
    ELSE LET name == CHOOSE n \in names : TRUE
             rest == FacetDataOver(sch, names \ {name})
         IN  rest \cup {Extended(d, name, v) :
                            d \in rest, v \in FacetInputs(SchemaByName(sch, name))}

FacetData(sch) == FacetDataOver(sch, filterable_names(sch))

\* [x for x in FacetSet(data)]
FacetSetIterate ==
    \E data \in FacetData(schemata) :
        /\ object_list(schemata, choices, entities, attrs, data).out \subseteq AllPks(entities)
        /\ UNCHANGED vars

\* entities of the table with a many-valued schema are stored
FacetManySave == (\E s \in schemata : s.datatype = TYPE_MANY) /\ ManySave

\* entities of the table with an integer and a boolean schema are stored
FacetTypedSave == (\A s \in schemata : s.datatype # TYPE_MANY) /\ (EntitySaveApple \/ SaveAttr)

\* facets over a text and a many-valued schema, or over an integer and a
\* boolean schema
InitFacets == InitWith(ManySchemata, ManyChoices) \/ InitWith(TypedSchemata, {})

NextFacets == FacetManySave \/ FacetTypedSave \/ FacetSetIterate

SpecFacets == InitFacets /\ [][NextFacets]_vars

\* a many-valued schema with its choices, and a text schema
InitMany == InitWith(ManySchemata, ManyChoices)

NextMany == ManySave \/ Filter \/ Exclude

SpecMany == InitMany /\ [][NextMany]_vars

(* ----------------------------------------------------------------------- *)
(* Claims                                                                  *)
(* ----------------------------------------------------------------------- *)

\* C1: after any sequence of create, save and save_attr calls the Attr table
\* holds at most one row for each (entity, schema, choice) triple.
C1_OneAttrPerTriple ==
    /\ \A r \in Rows(attrs) : CopiesIn(r, attrs) = 1
    /\ \A r1, r2 \in Rows(attrs) :
           (r1.entity = r2.entity /\ r1.schema = r2.schema /\ r1.choice = r2.choice)
               => r1 = r2

\* two entities hold Attr rows, one of them for two schemata
C1_Witness ==
    /\ \E r1, r2 \in Rows(attrs) : r1.entity = r2.entity /\ r1.schema # r2.schema
    /\ \E r1, r2 \in Rows(attrs) : r1.entity # r2.entity /\ r1.schema = r2.schema

\* what a freshly loaded instance of entity pk reads as attribute `name`
FreshRead(sch, ents, at, pk, name) ==
    BaseEntity_getattr(sch, at, Loaded(ents, pk), name)

\* after a call that stored attribute a = v (v a scalar) on entity pk: a fresh
\* instance reads v, and an Attr of (pk, a) holds v
StoredAndRead(sch, ents, at, pk, a, v) ==
    /\ FreshRead(sch, ents, at, pk, a) = Got(v, "")
    /\ \E r \in Rows(at) : r.entity = pk /\ r.schema = a /\ Attr_get_value(sch, r) = v

SimpleNames(sch) == {x.name : x \in {y \in sch : ~y.m2o /\ ~y.managed /\ y.datatype # TYPE_MANY}}

\* C2: for every non-many schema a and value v (other than None), after
\* Entity.objects.create(..., a=v), and after assigning a=v on an instance and
\* save(), a fresh instance reads a as v and the Attr table holds an Attr of
\* (entity, a) with value v.
C2_CreateOrSaveStoresValue ==
    \A vals \in SchemaKwargs(schemata) :
        /\ LET o == Manager_create(schemata, choices, entities, attrs,
                                   WithTitle(vals, "Apple"))
           IN  o.exc = "" =>
                   \A a \in (DOMAIN vals) \cap SimpleNames(schemata) :
                       vals[a].v # None =>
                           StoredAndRead(schemata, o.entities, o.attrs, o.pk, a, vals[a].v)
        /\ \A pk \in AllPks(entities) :
               LET o == BaseEntity_save(schemata, choices, entities, attrs,
                                        Instance(pk, entities[pk].title, vals))
               IN  o.exc = "" =>
                       \A a \in (DOMAIN vals) \cap SimpleNames(schemata) :
                           vals[a].v # None =>
                               StoredAndRead(schemata, o.entities, o.attrs, o.pk, a, vals[a].v)

M2oSchemaNames(sch) == {x.name : x \in {y \in sch : y.m2o}}

\* C3: for a many-valued schema s, after assigning a (non-empty) list L of its
\* choices to s on an entity and save(), a freshly loaded instance reads s as
\* exactly L.
C3_FreshInstanceReadsList ==
    \A s \in M2oSchemaNames(schemata), pk \in AllPks(entities) :
        \A L \in (SUBSET ChoiceNamesOf(choices, s)) \ {{}} :
            LET o == BaseEntity_save(schemata, choices, entities, attrs,
                         Instance(pk, entities[pk].title, [k \in {s} |-> ListOf(L)]))
                g == FreshRead(schemata, o.entities, o.attrs, pk, s)
            IN  o.exc = "" => (g.exc = "" /\ Scalar(g.value) = ListOf(L))

\* C7: after BaseSchema.save() of an m2o schema, every (choice, title) pair of
\* get_choices() has a schema m2o_<schema name>_<choice> of datatype bool,
\* managed, whose title is the choice's title.
C7_ManagedSchemataAfterSave ==
    \A self \in {x \in schemata : x.m2o} :
        LET saved == BaseSchema_save(schemata, choices, self)
        IN  \A p \in SeqRange(get_choices(choices, self.name)) :
                \E ms \in saved :
                    /\ ms.name = get_m2o_schema_name(self.name, p[1])
                    /\ ms.datatype = "bool"
                    /\ ms.managed
                    /\ ms.title = p[2]

\* a managed schema carries a title its choice no longer has (the next save
\* of the m2o schema has to bring it up to date), and another choice has no
\* managed schema yet (the next save has to create it)
C7_Witness ==
    /\ \E c \in choices, ms \in schemata :
           /\ ms.managed
           /\ ms.name = get_m2o_schema_name(c.schema, c.name)
           /\ ms.title # c.title
    /\ \E c \in choices : get_m2o_schema_name(c.schema, c.name) \notin SchemaNames(schemata)

\* C8: after save_attr(entity, name, L) on an m2o schema has returned, L a list
\* of available choices, every choice c of the schema has an Attr of (entity,
\* managed schema of c), and its boolean value is True exactly when c is in L.
C8_ListSetsEveryChoice ==
    \A self \in {x \in schemata : x.m2o}, pk \in AllPks(entities) :
        \A L \in SUBSET ChoiceNamesOf(choices, self.name) :
            LET o == save_attr(schemata, choices, attrs, self, pk, self.name, ListOf(L))
            IN  o.exc = "" =>
                    \A c \in ChoiceNamesOf(choices, self.name) :
                        LET mine == {r \in Rows(o.attrs) :
                                        /\ r.entity = pk
                                        /\ r.schema = get_m2o_schema_name(self.name, c)}
                        IN  /\ mine # {}
                            /\ \A r \in mine : (r.value_bool = "True") <=> (c \in L)
                            /\ \A r \in mine : r.value_bool \in {"True", "False"}

\* an entity has one choice enabled and another disabled, and a list that
\* swaps them can be saved
C8_Witness ==
    \E pk \in AllPks(entities) :
        /\ \E r \in Rows(attrs) :
               r.entity = pk /\ r.schema = "m2o_size_s" /\ r.value_bool = "True"
        /\ \E r \in Rows(attrs) :
               r.entity = pk /\ r.schema = "m2o_size_m" /\ r.value_bool = "False"
        /\ save_attr(schemata, choices, attrs, SchemaByName(schemata, "size"),
                     pk, "size", ListOf({"m"})).exc = ""

C10_ScalarIsWrappedIntoList ==
    \A self \in {x \in schemata : x.m2o}, pk \in AllPks(entities) :
        \A x \in ChoiceNamesOf(choices, self.name) :
            save_attr(schemata, choices, attrs, self, pk, self.name, Scalar(x))
                = save_attr(schemata, choices, attrs, self, pk, self.name, ListOf({x}))

\* whether a value x meets keyword value q: equal, or a member for __in
Meets(key, q, x) == IF Len(key) > 1 THEN x \in q.items ELSE x = q.v

\* entity pk satisfies one keyword of a query over titles and simple schemata:
\* the title of its row, or one Attr row of the keyword's schema that holds
\* the value in the column of the schema's datatype
SatisfiesLookup(sch, ents, at, pk, key, q) ==
    IF key[1] = "title" THEN Meets(key, q, ents[pk].title)
    ELSE \E r \in Rows(at) :
             /\ r.entity = pk
             /\ r.schema = key[1]
             /\ Meets(key, q, r[Column(SchemaByName(sch, key[1]).datatype)])

\* C4: filter(**kw) over static fields and EAV attribute names returns exactly
\* the entities that satisfy every lookup, the schema and the value of an EAV
\* lookup being met by one and the same Attr row.
C4_FilterReturnsExactlyMatching ==
    \A kw \in QueryKwargs(schemata) :
        BaseEntityManager_filter(schemata, entities, attrs, kw)
            = Found({pk \in AllPks(entities) :
                        \A key \in DOMAIN kw :
                            SatisfiesLookup(schemata, entities, attrs, pk, key, kw[key])},
                    "")

\* one entity holds "sweet" as its colour and not as its taste, another holds
\* it as its taste, and the titles differ: filter(taste="sweet") and
\* filter(title=...) each have to tell them apart
C4_Witness ==
    /\ Len(entities) = 2
    /\ entities[1].title # entities[2].title
    /\ \E r \in Rows(attrs) : r.entity = 1 /\ r.schema = "colour" /\ r.value_text = "sweet"
    /\ \E r \in Rows(attrs) : r.entity = 1 /\ r.schema = "taste" /\ r.value_text = "green"
    /\ \E r \in Rows(attrs) : r.entity = 2 /\ r.schema = "taste" /\ r.value_text = "sweet"
    /\ BaseEntityManager_filter(schemata, entities, attrs,
                                [k \in {<<"taste">>} |-> Scalar("sweet")]).out = {2}

\* C5: exclude(a=v) returns exactly the entities whose Attr rows of schema a
\* all hold values other than v (those with no Attr of a among them).
C5_ExcludeReturnsOthers ==
    \A a \in SimpleNames(schemata) :
        \A v \in ValuesOf(SchemaByName(schemata, a).datatype) :
            BaseEntityManager_exclude(schemata, entities, attrs,
                                      [k \in {<<a>>} |-> Scalar(v)])
                = Found({pk \in AllPks(entities) :
                            \A r \in Rows(attrs) :
                                (r.entity = pk /\ r.schema = a)
                                    => r[Column(SchemaByName(schemata, a).datatype)] # v},
                        "")

ListsWithWrongItem(ch, name) ==
    {L \in SUBSET (ChoiceNames \cup {"xl"}) : ~(L \subseteq ChoiceNamesOf(ch, name))}

\* C11: save_attr of a multi-choice schema with a list that holds an item
\* which is not one of the schema's choices raises ValueError and leaves the
\* Attr table as it was: no Attr is created or changed.
C11_WrongChoiceChangesNothing ==
    \A self \in {s \in schemata : s.m2o}, pk \in AllPks(entities) :
        \A L \in ListsWithWrongItem(choices, self.name) :
            save_attr(schemata, choices, attrs, self, pk, self.name, ListOf(L))
                = Outcome(attrs, "ValueError")

\* an entity has the choice s enabled and the choice m disabled, both are
\* choices with their managed schemata, and the list [m, xl] is refused
C11_Witness ==
    /\ ChoiceNamesOf(choices, "size") = {"s", "m"}
    /\ {"m2o_size_s", "m2o_size_m"} \subseteq SchemaNames(schemata)
    /\ \E r \in Rows(attrs) : r.entity = 1 /\ r.schema = "m2o_size_s" /\ r.value_bool = "True"
    /\ \E r \in Rows(attrs) : r.entity = 1 /\ r.schema = "m2o_size_m" /\ r.value_bool = "False"
    /\ {"m", "xl"} \in ListsWithWrongItem(choices, "size")
    /\ save_attr(schemata, choices, attrs, SchemaByName(schemata, "size"), 1, "size",
                 ListOf({"m", "xl"})).exc = "ValueError"

\* keyword names that are neither a field nor a schema
UnknownNames == {"weight", "colour__in"}

\* keyword arguments with some unknown names among them
WithUnknown(kw, names) ==
    [k \in (DOMAIN kw) \cup names |-> IF k \in names THEN Scalar("green") ELSE kw[k]]

\* C12: Entity.objects.create(**kwargs) with a keyword that is neither a field
\* name nor the name of a schema raises NameError, and neither an entity row
\* nor an Attr is stored.
C12_CreateUnknownNameStoresNothing ==
    \A vals \in SchemaKwargs(schemata), title \in Titles :
        \A names \in (SUBSET UnknownNames) \ {{}} :
            (names \cap (FieldNames \cup SchemaNames(schemata)) = {}) =>
                Manager_create(schemata, choices, entities, attrs,
                               WithUnknown(WithTitle(vals, title), names))
                    = Saved(entities, attrs, 0, "NameError")

\* entities and Attrs are stored, there is room for one more entity, and a
\* create with valid attributes stores it while the same call with one
\* unknown keyword more is refused
C12_Witness ==
    /\ Len(entities) = 1
    /\ attrs # EmptyBag
    /\ \E vals \in SchemaKwargs(schemata) :
           /\ vals # <<>>
           /\ LET o == Manager_create(schemata, choices, entities, attrs,
                                      WithTitle(vals, "Pear"))
              IN  o.exc = "" /\ o.attrs # attrs /\ Len(o.entities) = 2
           /\ Manager_create(schemata, choices, entities, attrs,
                             WithUnknown(WithTitle(vals, "Pear"), {"weight"})).exc
                  = "NameError"

\* lookup keywords whose name part is neither a field nor a schema:
\* weight, weight__in, weight__year__gt
UnknownLookups == {<<"weight">>, <<"weight", "in">>, <<"weight", "year", "gt">>}

\* C13: filter(**kw) and exclude(**kw) raise NameError whenever the name part
\* of one of the keywords (the text before the first "__") is neither a field
\* of the entity model nor the name of a schema of get_schemata_for_model().
C13_UnknownLookupRaisesNameError ==
    \A key \in UnknownLookups :
        (Head(key) \notin FieldNames \cup SchemaNames(get_schemata_for_model(schemata))) =>
            LET kw == [k \in {key} |-> Scalar("green")]
            IN  /\ BaseEntityManager_filter(schemata, entities, attrs, kw).exc = "NameError"
                /\ BaseEntityManager_exclude(schemata, entities, attrs, kw).exc = "NameError"
                /\ EntityManager_filter(schemata, entities, attrs, kw).exc = "NameError"

\* C14: Entity.objects.create(a=v) stores an Attr of schema a whenever a
\* schema named a is in get_schemata_for_model(), also when
\* get_schemata_for_instance() leaves that schema out for the created
\* instance (a a schema that is not many-to-one, v a value that is true in
\* Python).
C14_CreateIgnoresInstanceSchemata ==
    \A title \in Titles, vals \in SchemaKwargs(schemata) :
        LET o == Manager_create(schemata, choices, entities, attrs, WithTitle(vals, title))
        IN  \A a \in (DOMAIN vals) \cap SimpleNames(get_schemata_for_model(schemata)) :
                Truthy(vals[a].v) =>
                    /\ o.exc = ""
                    /\ \E r \in Rows(o.attrs) :
                           /\ r.entity = o.pk
                           /\ r.schema = a
                           /\ Attr_get_value(schemata, r) = vals[a].v

\* names a caller may read on an entity: schema names, a private name and a
\* name that is neither
ReadNames(sch) == SchemaNames(sch) \cup PrivateNames \cup {"weight"}

\* the names of the schemata of the stored entity pk
EntitySchemaNames(sch, ents, pk) ==
    {s.name : s \in {x \in sch : <<ents[pk].title, x.name>> \notin hidden}}

ValueColumns == {"value_text", "value_int", "value_date", "value_bool"}

\* C16: Attr.value reads and writes exactly the column value_<datatype> of the
\* datatype of the Attr's schema and leaves the other columns as they are;
\* and, the datatypes of the schemata staying as they are, after any sequence
\* of calls every stored Attr is NULL in every value column but that one.
C16_ValueIsTheDatatypeColumn ==
    \A r \in Rows(attrs) :
        LET datatype == SchemaByName(schemata, r.schema).datatype
            others == ValueColumns \ {"value_" \o datatype}
        IN  /\ Attr_get_value(schemata, r) = r["value_" \o datatype]
            /\ \A c \in others : r[c] = None
            /\ \A v \in ValuesOf(datatype) \cup {None} :
                   LET w == Attr_set_value(schemata, r, v)
                   IN  /\ w["value_" \o datatype] = v
                       /\ \A c \in (DOMAIN r) \ {"value_" \o datatype} : w[c] = r[c]

\* Attrs of a bool schema and of an int schema are stored with values
C16_Witness ==
    /\ \E r \in Rows(attrs) : r.schema = "i_can_haz_it" /\ r.value_bool = "True"
    /\ \E r \in Rows(attrs) : r.schema = "age" /\ r.value_int = "1"
    /\ \E r \in Rows(attrs) : r.schema = "age" /\ r.value_int = None

\* the data holds a non-empty value under the name
NonEmptyData(d) == IF d.isList THEN d.items # {} ELSE d.v \notin {None, ""}

\* the entity matches the facet of schema name for the submitted value: it
\* has the value stored for the schema, or, for a many-valued schema, has one
\* of the submitted choices enabled
FacetMatches(sch, at, pk, name, d) ==
    IF d.isList THEN EnabledChoices(at, pk, name) \cap d.items # {}
    ELSE \E r \in Rows(at) :
             /\ r.entity = pk
             /\ r.schema = name
             /\ r[Column(SchemaByName(sch, name).datatype)] = d.v

\* C17: iterating a FacetSet built from submitted data yields exactly the
\* entities that match every facet for which the data holds a non-empty value;
\* with empty data it yields all entities; data that fails the validation of
\* the form yields no entity.
C17_FacetSetYieldsMatching ==
    \A data \in FacetData(schemata) :
        object_list(schemata, choices, entities, attrs, data)
            = Found(IF BaseFacetSet_get_lookups(schemata, choices, attrs, data).exc
                           = "ValidationError"
                    THEN {}
                    ELSE {pk \in AllPks(entities) :
                             \A name \in DOMAIN data :
                                 NonEmptyData(data[name]) =>
                                     FacetMatches(schemata, attrs, pk, name, data[name])},
                    "")

\* what may follow the name in a lookup keyword: nothing, __in, __year__gt
Sublookups == {<<>>, <<"in">>, <<"year", "gt">>}

\* C18: a lookup keyword on an EAV attribute is split at the first "__" only:
\* the part before it selects the schema, and the whole rest, which may hold
\* "__" itself, is appended to the value column of the schema's datatype
\* (attrs__value_<datatype>__<sublookup>); a keyword without "__" gives
\* attrs__value_<datatype>; both come with the schema condition.
C18_LookupSplitAtFirstSeparator ==
    \A a \in SimpleNames(schemata), sublookup \in Sublookups :
        \A value \in QueryVals(SchemaByName(schemata, a)) :
            LET expected ==
                    Lookups({Cond(<<"attrs", "schema">>, Scalar(a)),
                             Cond(<<"attrs", "value_" \o SchemaByName(schemata, a).datatype>>
                                      \o sublookup, value)}, "")
            IN  /\ _filter_by_lookup(schemata, <<a>> \o sublookup, value) = expected
                /\ EntityManager_filter_by_lookup(schemata, <<a>> \o sublookup, value) = expected

\* the names of the managed schemata of the current choices of schema `name`
CurrentManagedNames(ch, name) ==
    {get_m2o_schema_name(name, c) : c \in ChoiceNamesOf(ch, name)}

\* the names of the managed schemata that exist for schema `name`
ManagedNamesOf(sch, name) ==
    {s.name : s \in {x \in sch : x.managed}}
        \cap {get_m2o_schema_name(name, c) : c \in ChoiceNames}

\* C19 as stated: after a save of a many-to-one schema whose choices were
\* added and removed between saves, the managed schemata that exist for it are
\* exactly those of its current choices, and no Attr with value True is left
\* for a choice that is gone.
C19_ManagedSchemataFollowChoices ==
    \A self \in {s \in schemata : s.m2o} :
        LET saved == BaseSchema_save(schemata, choices, self)
        IN  /\ ManagedNamesOf(saved, self.name) = CurrentManagedNames(choices, self.name)
            /\ \A r \in Rows(attrs) :
                   (r.schema \in ManagedNamesOf(saved, self.name) /\ r.value_bool = "True")
                       => r.schema \in CurrentManagedNames(choices, self.name)

\* C19, amended: no call removes a managed schema, so the managed schemata of
\* a many-to-one schema are those of every choice it had at one of its saves;
\* and no call changes an Attr of the managed schema of a choice that is gone,
\* so an Attr with value True stays True.
C19_ManagedSchemataAreKept ==
    [][\A self \in {s \in schemata : s.m2o} :
           /\ ManagedNamesOf(schemata, self.name) \subseteq ManagedNamesOf(schemata', self.name)
           /\ \A r \in Rows(attrs) :
                  (/\ r.schema \in ManagedNamesOf(schemata, self.name)
                   /\ r.schema \notin CurrentManagedNames(choices, self.name))
                      => CopiesIn(r, attrs') = CopiesIn(r, attrs)]_vars

\* the choice s was removed and the schema saved again with the choice m
\* only: the managed schema of s is still there, and so is an Attr of it with
\* value True
C19_Witness ==
    /\ ChoiceNamesOf(choices, "size") = {"m"}
    /\ schemata = BaseSchema_save(schemata, choices, SchemaByName(schemata, "size"))
    /\ {"m2o_size_s", "m2o_size_m"} \subseteq SchemaNames(schemata)
    /\ \E r \in Rows(attrs) : r.schema = "m2o_size_s" /\ r.value_bool = "True"
    /\ \E r \in Rows(attrs) : r.schema = "m2o_size_m"

====
